---- MODULE Spec2Model ----
(***************************************************************************)
(* Model of llm4crs/query/query_tool.py: QueryTool.rewrite_sql and         *)
(* QueryTool.run.                                                          *)
(*                                                                         *)
(* A string is a sequence of one-character strings.  A SQL command is the  *)
(* sequence of its whitespace-separated tokens, each token a string.  The  *)
(* keys that rewrite_sql substitutes never contain whitespace, so          *)
(* str.replace on the command is str.replace on each of its tokens.        *)
(***************************************************************************)
EXTENDS Integers, Sequences, FiniteSets, TLC

\* ------------------------------------------------------------------------
\* Bounds of the model
\* ------------------------------------------------------------------------
MaxPreds == 2
MaxRecords == 2
MaxFields == 2

\* ------------------------------------------------------------------------
\* Strings
\* ------------------------------------------------------------------------
LowerCase ==
    <<"a","b","c","d","e","f","g","h","i","j","k","l","m",
      "n","o","p","q","r","s","t","u","v","w","x","y","z">>

UpperCase ==
    <<"A","B","C","D","E","F","G","H","I","J","K","L","M",
      "N","O","P","Q","R","S","T","U","V","W","X","Y","Z">>

Digits == {"0","1","2","3","4","5","6","7","8","9"}

Range(s) == {s[i] : i \in 1..Len(s)}

\* the characters the regular expressions' \w and [a-zA-Z0-9_] match
WordChars == Range(LowerCase) \cup Range(UpperCase) \cup Digits \cup {"_"}

IsWord(s) == Len(s) > 0 /\ \A i \in 1..Len(s) : s[i] \in WordChars

\* re.IGNORECASE compares characters after case folding
UpperOf == [c \in Range(LowerCase) |->
               UpperCase[CHOOSE i \in 1..Len(LowerCase) : LowerCase[i] = c]]

Upper(c) == IF c \in DOMAIN UpperOf THEN UpperOf[c] ELSE c

UpperStr(s) == [i \in 1..Len(s) |-> Upper(s[i])]

HasPrefix(s, p) == Len(s) >= Len(p) /\ SubSeq(s, 1, Len(p)) = p

\* str.replace(k, v): leftmost non-overlapping occurrences, left to right
RECURSIVE StrReplace(_, _, _)
StrReplace(s, k, v) ==
    IF Len(s) < Len(k) \/ Len(k) = 0 THEN s
    ELSE IF HasPrefix(s, k)
         THEN v \o StrReplace(SubSeq(s, Len(k) + 1, Len(s)), k, v)
         ELSE <<s[1]>> \o StrReplace(Tail(s), k, v)

\* str.replace applied to a whole command
SqlReplace(sql, k, v) == [i \in 1..Len(sql) |-> StrReplace(sql[i], k, v)]

\* ------------------------------------------------------------------------
\* Tokens of the query language
\* ------------------------------------------------------------------------
kwSELECT == <<"S","E","L","E","C","T">>
kwFROM   == <<"F","R","O","M">>
kwWHERE  == <<"W","H","E","R","E">>
kwAND    == <<"A","N","D">>
kwNOT    == <<"N","O","T">>
kwLIKE   == <<"L","I","K","E">>
tkStar   == <<"*">>
tkEq     == <<"=">>
tkOne    == <<"1">>

\* ------------------------------------------------------------------------
\* The item corpus (BaseGallery), as rewrite_sql reads it
\* ------------------------------------------------------------------------
sItems  == <<"i","t","e","m","s">>
sMovies == <<"m","o","v","i","e","s">>
sName   == <<"n","a","m","e">>
sNam    == <<"n","a","m">>
sNa     == <<"n","a">>
sItem   == <<"i","t","e","m">>
sGenre  == <<"g","e","n","r","e">>
sGenr   == <<"g","e","n","r">>
sAction == <<"a","c","t","i","o","n">>
sActon  == <<"a","c","t","o","n">>
sOk     == <<"o","'","k">>

\* item_corpus.name
CorpusName == sItems

\* set(item_corpus.column_meaning.keys())
existing_cols == {sName, sGenre}

\* item_corpus.categorical_col_values: column -> known values
CategoricalValues(col) == IF col = sGenre THEN {sAction, sOk} ELSE {}

\* the columns of item_corpus.fuzzy_engine
fuzzy_engine == {sGenre}

\* ------------------------------------------------------------------------
\* rewrite_sql, step 1: re.sub(r'\bFROM\s+(\w+)\s+WHERE', ..., re.IGNORECASE)
\* ------------------------------------------------------------------------

\* the token ends with FROM (any case) and a word boundary precedes FROM
EndsWithFROM(tok) ==
    LET n == Len(tok) IN
    /\ n >= 4
    /\ UpperStr(SubSeq(tok, n - 3, n)) = kwFROM
    /\ (n = 4 \/ tok[n - 4] \notin WordChars)

\* the pattern matches at token i: FROM, a table name of \w characters, WHERE
FromMatchAt(sql, i) ==
    /\ i + 2 <= Len(sql)
    /\ EndsWithFROM(sql[i])
    /\ IsWord(sql[i + 1])
    /\ HasPrefix(UpperStr(sql[i + 2]), kwWHERE)

\* every match is replaced by 'FROM <corpus name> WHERE'; text around the
\* match is kept; the scan resumes after the match
RECURSIVE FromSubFrom(_, _)
FromSubFrom(sql, i) ==
    IF i > Len(sql) THEN <<>>
    ELSE IF FromMatchAt(sql, i)
         THEN << SubSeq(sql[i], 1, Len(sql[i]) - 4) \o kwFROM,
                 CorpusName,
                 kwWHERE \o SubSeq(sql[i + 2], 6, Len(sql[i + 2])) >>
              \o FromSubFrom(sql, i + 3)
         ELSE <<sql[i]>> \o FromSubFrom(sql, i + 1)

FromSub(sql) == FromSubFrom(sql, 1)

\* ------------------------------------------------------------------------
\* llm4crs.utils.sql.extract_columns_from_where
\* ------------------------------------------------------------------------
IsWHERE(tok) == UpperStr(tok) = kwWHERE

\* index of the WHERE keyword, 0 when the command has none
WherePos(sql) ==
    IF \E i \in 1..Len(sql) : IsWHERE(sql[i])
    THEN CHOOSE i \in 1..Len(sql) :
            IsWHERE(sql[i]) /\ \A j \in 1..(i - 1) : ~IsWHERE(sql[j])
    ELSE 0

\* the left-hand identifiers of the comparisons 'col op value' and
\* 'col NOT LIKE value', which AND / OR combine
RECURSIVE PredicateColumns(_)
PredicateColumns(toks) ==
    IF Len(toks) < 3 THEN {}
    ELSE LET n == IF UpperStr(toks[2]) = kwNOT THEN 4 ELSE 3
         IN  {toks[1]} \cup PredicateColumns(SubSeq(toks, n + 2, Len(toks)))

extract_columns_from_where(sql) ==
    IF WherePos(sql) = 0 THEN {}
    ELSE PredicateColumns(SubSeq(sql, WherePos(sql) + 1, Len(sql)))

\* ------------------------------------------------------------------------
\* rewrite_sql, step 2: grounding cols
\* ------------------------------------------------------------------------

\* the keys of col_replace_dict
UnknownCols(sql) == extract_columns_from_where(sql) \ existing_cols

\* for k, v in col_replace_dict.items(): sql = sql.replace(k, v)
\* keys: the dict's keys in insertion order; fm: key -> fuzzy_match(key)
RECURSIVE ApplyColReplace(_, _, _)
ApplyColReplace(sql, keys, fm) ==
    IF keys = <<>> THEN sql
    ELSE ApplyColReplace(SqlReplace(sql, Head(keys), fm[Head(keys)]), Tail(keys), fm)

\* the orders in which a set's elements can be inserted into the dict
Orders(S) ==
    {o \in [1..Cardinality(S) -> S] : \A i, j \in 1..Cardinality(S) : o[i] = o[j] => i = j}

\* ------------------------------------------------------------------------
\* rewrite_sql, step 3: grounding categorical values
\* ------------------------------------------------------------------------

\* the longest suffix of the token made of [a-zA-Z0-9_]
RECURSIVE WordSuffix(_)
WordSuffix(tok) ==
    IF tok = <<>> \/ tok[Len(tok)] \notin WordChars THEN <<>>
    ELSE WordSuffix(SubSeq(tok, 1, Len(tok) - 1)) \o <<tok[Len(tok)]>>

\* position of the first '%' of the token at or after position p, 0 if none
RECURSIVE PercentFrom(_, _)
PercentFrom(tok, p) ==
    IF p > Len(tok) THEN 0
    ELSE IF tok[p] = "%" THEN p ELSE PercentFrom(tok, p + 1)

\* the token starts with '%value%' : the value, <<>> when it does not
LikeValue(tok) ==
    IF HasPrefix(tok, <<"'", "%">>)
    THEN LET p == PercentFrom(tok, 3)
         IN  IF p > 3 /\ p < Len(tok) /\ tok[p + 1] = "'"
             THEN SubSeq(tok, 3, p - 1) ELSE <<>>
    ELSE <<>>

\* index of the literal of a match ([a-zA-Z0-9_]+) (?:NOT )?LIKE '%([^%]+)%'
\* whose column ends token i; 0 when there is no match at token i
LikeLiteralAt(sql, i) ==
    IF WordSuffix(sql[i]) = <<>> THEN 0
    ELSE IF i + 2 <= Len(sql) /\ sql[i + 1] = kwLIKE /\ LikeValue(sql[i + 2]) # <<>>
         THEN i + 2
    ELSE IF /\ i + 3 <= Len(sql) /\ sql[i + 1] = kwNOT /\ sql[i + 2] = kwLIKE
            /\ LikeValue(sql[i + 3]) # <<>>
         THEN i + 3
    ELSE 0

\* re.findall(pattern, sql): the (col, value) pairs, in order
RECURSIVE LikeMatchesFrom(_, _)
LikeMatchesFrom(sql, i) ==
    IF i > Len(sql) THEN <<>>
    ELSE IF LikeLiteralAt(sql, i) # 0
         THEN << <<WordSuffix(sql[i]), LikeValue(sql[LikeLiteralAt(sql, i)])>> >>
              \o LikeMatchesFrom(sql, LikeLiteralAt(sql, i) + 1)
         ELSE LikeMatchesFrom(sql, i + 1)

LikeMatches(sql) == LikeMatchesFrom(sql, 1)

\* the matches whose column has a fuzzy engine
GroundedMatches(sql) ==
    {LikeMatches(sql)[j] : j \in {n \in 1..Len(LikeMatches(sql)) :
                                     LikeMatches(sql)[n][1] \in fuzzy_engine}}

\* replace_value.replace("'", "''")
EscapeQuotes(s) == StrReplace(s, <<"'">>, <<"'", "'">>)

Wild(v) == <<"%">> \o v \o <<"%">>

\* for k, v in replace_dict.items(): sql = sql.replace(k, v)
\* an entry written twice keeps its first position and its last value
RECURSIVE ApplyValueReplace(_, _, _, _)
ApplyValueReplace(sql, ms, vfm, done) ==
    IF ms = <<>> THEN sql
    ELSE LET m    == Head(ms)
             last == CHOOSE j \in 1..Len(ms) :
                        /\ ms[j][2] = m[2] /\ ms[j][1] \in fuzzy_engine
                        /\ \A n \in (j + 1)..Len(ms) :
                              ~(ms[n][2] = m[2] /\ ms[n][1] \in fuzzy_engine)
         IN  IF m[1] \notin fuzzy_engine \/ m[2] \in done
             THEN ApplyValueReplace(sql, Tail(ms), vfm, done)
             ELSE ApplyValueReplace(
                      SqlReplace(sql, Wild(m[2]), Wild(EscapeQuotes(vfm[ms[last]]))),
                      Tail(ms), vfm, done \cup {m[2]})

\* ------------------------------------------------------------------------
\* rewrite_sql
\*   keys : the insertion order of col_replace_dict
\*   fm   : what fuzzy_match(col, 'sql_cols') returns for each unknown column
\*   vfm  : what fuzzy_match(value, col) returns for each grounded match
\* ------------------------------------------------------------------------
GroundCols(sql, keys, fm) == ApplyColReplace(sql, keys, fm)

GroundValues(sql, vfm) == ApplyValueReplace(sql, LikeMatches(sql), vfm, {})

rewrite_sql(sql, keys, fm, vfm) == GroundValues(GroundCols(FromSub(sql), keys, fm), vfm)

\* the results fuzzy_match can give for the matches of a command
ValueMatchings(sql) ==
    {vfm \in [GroundedMatches(sql) -> UNION {CategoricalValues(c) : c \in fuzzy_engine}] :
        \A m \in GroundedMatches(sql) : vfm[m] \in CategoricalValues(m[1])}

\* ------------------------------------------------------------------------
\* The SQL commands given to rewrite_sql
\* ------------------------------------------------------------------------
Lit(v) == <<"'", "%">> \o v \o <<"%", "'">>

EqPred(col) == <<col, tkEq, tkOne>>

LikePred(col, v) == <<col, kwLIKE, Lit(v)>>

NotLikePred(col, v) == <<col, kwNOT, kwLIKE, Lit(v)>>

Preds ==
    {EqPred(c) : c \in {sName, sNam, sNa, sItem}}
    \cup {LikePred(c, v) : c \in {sGenre, sGenr}, v \in {sAction, sActon}}
    \cup {NotLikePred(sGenre, sActon)}

SeqsUpTo(S, n) == UNION {[1..m -> S] : m \in 0..n}

\* p1 AND p2 AND ...
RECURSIVE Conj(_)
Conj(ps) ==
    IF ps = <<>> THEN <<>>
    ELSE IF Len(ps) = 1 THEN ps[1]
    ELSE ps[1] \o <<kwAND>> \o Conj(Tail(ps))

LowerStr(s) ==
    [i \in 1..Len(s) |->
        IF \E j \in 1..Len(UpperCase) : UpperCase[j] = s[i]
        THEN LowerCase[CHOOSE j \in 1..Len(UpperCase) : UpperCase[j] = s[i]]
        ELSE s[i]]

\* SELECT * FROM table [WHERE predicates], keywords in upper or lower case
MkQuery(upper, table, ps) ==
    LET kw(k) == IF upper THEN k ELSE LowerStr(k)
    IN  <<kw(kwSELECT), tkStar, kw(kwFROM), table>>
        \o (IF ps = <<>> THEN <<>> ELSE <<kw(kwWHERE)>> \o Conj(ps))

Tables == {sMovies, sItems}

Queries ==
    {MkQuery(u, t, ps) : u \in BOOLEAN, t \in Tables, ps \in SeqsUpTo(Preds, MaxPreds)}

\* ------------------------------------------------------------------------
\* Result records and the token counter
\* ------------------------------------------------------------------------

\* A word of a field's text is the number of tokens it encodes to; the
\* empty string is the one word 0.  ell: the text ends with "...".
WordsOf(n) == [i \in 1..n |-> 1 + (i % 2)]

Field(ws) == [words |-> ws, ell |-> FALSE]

FieldLens == {1, 11}

Texts == {Field(WordsOf(n)) : n \in FieldLens} \cup {Field(<<0>>)}

\* the records of one result set have the same fields (DataFrame.to_dict)
ResultSets ==
    UNION {[1..n -> [1..nf -> Texts]] : n \in 0..MaxRecords, nf \in 0..MaxFields}

Budgets == {5, 12, 33}

RECURSIVE SumSeq(_)
SumSeq(s) == IF s = <<>> THEN 0 ELSE Head(s) + SumSeq(Tail(s))

\* num_tokens_from_string(str(v)) of a field's value
FieldTokens(f) == SumSeq(f.words) + (IF f.ell THEN 1 ELSE 0)

\* num_tokens_from_string(json.dumps(record)): braces, and per field its
\* key and punctuation
RecordTokens(r) == 1 + SumSeq([k \in 1..Len(r) |-> 2 + FieldTokens(r[k])])

\* num_tokens_from_string(json.dumps(list of records))
ListTokens(l) == 1 + SumSeq([j \in 1..Len(l) |-> RecordTokens(l[j])])

\* len(v.split(" ")) summed over the fields of a record
TotalWords(r) == SumSeq([k \in 1..Len(r) |-> Len(r[k].words)])

\* ------------------------------------------------------------------------
\* Strings that run builds: a string is the sequence of its pieces
\* ------------------------------------------------------------------------
Piece(t) == [text |-> t, sql |-> <<>>, recs |-> <<>>]

SqlPiece(q) == [text |-> "sql", sql |-> q, recs |-> <<>>]

\* json.dumps(records)
JsonDumps(l) == <<[text |-> "json", sql |-> <<>>, recs |-> l]>>

DefaultOutput == <<Piece("can not seach related information.")>>

BrokenNotice ==
    <<Piece("{name}: some thing went wrong in execution, the tool is broken for current input. \n")>>

RewriteNotice(q) ==
    <<Piece("{name}: The input SQL is rewritten as "), SqlPiece(q),
      Piece(" because some {cols} are not existing. \n")>>

OmittedNotice ==
    <<Piece("{name}: The search result is too long, some are omitted. \n")>>

SearchResult(out) == <<Piece("{name} search result: ")>> \o out

\* the commands rewrite_sql can return for a command, over the insertion
\* orders of col_replace_dict and the answers of fuzzy_match
RewriteResults(q) ==
    UNION { UNION { { rewrite_sql(q, keys, fm, vfm) :
                        vfm \in ValueMatchings(GroundCols(FromSub(q), keys, fm)) } :
                    fm \in [UnknownCols(FromSub(q)) -> existing_cols] } :
            keys \in Orders(UnknownCols(FromSub(q))) }

\* the commands given to run
RunQueries ==
    {MkQuery(TRUE, sMovies, <<>>),
     MkQuery(FALSE, sMovies, <<EqPred(sNam)>>)}

\* ------------------------------------------------------------------------
\* run: one pass of the per-record while loop (lines 71-94)
\* ------------------------------------------------------------------------
Min(a, b) == IF a < b THEN a ELSE b

key2token(r) == [k \in 1..Len(r) |-> FieldTokens(r[k])]

all_token(r) == SumSeq(key2token(r))

\* line 78 (not evaluated for a record without fields)
cut_off_token(r, overflow, k) == (overflow * key2token(r)[k]) \div all_token(r)

\* ZeroDivisionError at line 78 (all_token = 0) or line 81 (key2token[k] = 0)
PassRaises(r) == \E k \in 1..Len(r) : key2token(r)[k] = 0

\* line 81 without the cap that keeps three words
cut_word_cnt_uncapped(f, cut) == (Len(f.words) * cut) \div FieldTokens(f)

\* line 81
cut_word_cnt(f, cut) ==
    Min((Len(f.words) * cut) \div FieldTokens(f), Len(f.words) - 3)

\* the number of words lines 82-92 drop from the end of a field
CutSize(f, cut) ==
    IF cut_word_cnt(f, cut) >= 1 /\ Len(f.words) > 10 THEN cut_word_cnt(f, cut)
    ELSE IF cut_word_cnt(f, cut) >= 1 /\ Len(f.words) > 5 THEN 1
    ELSE 0

\* lines 80-93: the field after the pass
CutField(f, cut) ==
    IF CutSize(f, cut) = 0 THEN f
    ELSE [words |-> SubSeq(f.words, 1, Len(f.words) - CutSize(f, cut)), ell |-> TRUE]

\* res_record after the pass
ShrinkPass(r, overflow) ==
    [k \in 1..Len(r) |-> CutField(r[k], cut_off_token(r, overflow, k))]

\* a pass that never resets _cut_last
CutLastAfterAlways(r, overflow, prev) == TRUE

\* _cut_last after the pass: every field assigns it, the last field's
\* assignment stays; a record without fields leaves it as it was

CutLastAfter(r, overflow, prev) ==
    IF Len(r) = 0 THEN prev
    ELSE CutSize(r[Len(r)], cut_off_token(r, overflow, Len(r))) > 0

\* self._max_record_num (line 28)
max_record_num(B) == B \div 5

\* random.sample(res, k): k elements at distinct positions, in any order
Samples(l, k) ==
    {[j \in 1..k |-> l[ix[j]]] :
        ix \in {x \in [1..k -> 1..Len(l)] : \A a, b \in 1..k : x[a] = x[b] => a = b}}

\* cut_list(cut_res, result_max_token): a truncation of the list
cut_list(l, B) == {SubSeq(l, 1, m) : m \in 0..Len(l)}

\* ------------------------------------------------------------------------
\* State
\* ------------------------------------------------------------------------
VARIABLES
    pc,                 \* position in run or rewrite_sql
    result_max_token,   \* self.result_max_token
    raw,                \* the command as the caller passed it
    inputs,             \* the local variable inputs / sql
    info,               \* the local variable info
    output,             \* the local variable output
    res,                \* the local variable res
    _any_cut,
    cut_res,            \* the entries of cut_res assigned so far
    i,                  \* index of the for loop at line 64
    res_record,
    overflow_token,
    _cut_last,
    returned,           \* the string run returned
    tracked,            \* the calls of buffer.track
    hist,               \* the steps of run taken in this invocation
    fallback,           \* cut_list was applied at line 103
    passes,             \* passes of the while loop made for record i
    words0              \* total word count of record i when its loop began

vars == <<pc, result_max_token, raw, inputs, info, output, res, _any_cut, cut_res,
          i, res_record, overflow_token, _cut_last, returned, tracked, hist,
          fallback, passes, words0>>

locals == <<info, output, res, _any_cut, cut_res, i, res_record, overflow_token,
            _cut_last, returned, tracked, hist, fallback, passes, words0>>

token_limit_per_record == result_max_token \div (Len(res) + 1)

InitLocals ==
    /\ info = <<>>
    /\ output = DefaultOutput
    /\ res = <<>>
    /\ _any_cut = FALSE
    /\ cut_res = <<>>
    /\ i = 0
    /\ res_record = <<>>
    /\ overflow_token = 0
    /\ _cut_last = TRUE
    /\ returned = <<>>
    /\ tracked = <<>>
    /\ hist = {}
    /\ fallback = FALSE
    /\ passes = 0
    /\ words0 = 0

\* a QueryTool constructed with some budget, run called with some command
Init ==
    /\ pc = "run"
    /\ result_max_token \in Budgets
    /\ raw \in RunQueries
    /\ inputs = raw
    /\ InitLocals

\* rewrite_sql called with some command
InitRewrite ==
    /\ pc = "rewrite_sql"
    /\ result_max_token = 512
    /\ raw \in Queries
    /\ inputs = raw
    /\ InitLocals

\* ------------------------------------------------------------------------
\* rewrite_sql as a function of its own
\* ------------------------------------------------------------------------
RewriteReturn ==
    /\ pc = "rewrite_sql"
    /\ inputs' \in RewriteResults(raw)
    /\ pc' = "rewrite_returned"
    /\ UNCHANGED <<result_max_token, raw, locals>>

\* extract_columns_from_where or fuzzy_match raises
RewriteRaise ==
    /\ pc = "rewrite_sql"
    /\ pc' = "rewrite_raised"
    /\ UNCHANGED <<result_max_token, raw, inputs, locals>>

NextRewrite == RewriteReturn \/ RewriteRaise

SpecRewrite == InitRewrite /\ [][NextRewrite]_vars

\* ------------------------------------------------------------------------
\* run
\* ------------------------------------------------------------------------

\* lines 38-40: rewrite_sql returns
RunRewrite ==
    /\ pc = "run"
    /\ inputs' \in RewriteResults(raw)
    /\ info' = info \o RewriteNotice(inputs')
    /\ hist' = hist \cup {"rewrite"}
    /\ pc' = "execute"
    /\ UNCHANGED <<result_max_token, raw, output, res, _any_cut, cut_res, i,
                   res_record, overflow_token, _cut_last, returned, tracked,
                   fallback, passes, words0>>

\* a rewrite failure that falls through to the second try block
RunRewriteRaiseFallThrough ==
    /\ pc = "run"
    /\ info' = info \o BrokenNotice
    /\ hist' = hist \cup {"rewrite_raised"}
    /\ pc' = "execute"
    /\ UNCHANGED <<result_max_token, raw, inputs, output, res, _any_cut, cut_res, i,
                   res_record, overflow_token, _cut_last, returned, tracked,
                   fallback, passes, words0>>

\* lines 41-43: rewrite_sql raises; run returns info
RunRewriteRaise ==
    /\ pc = "run"
    /\ info' = info \o BrokenNotice
    /\ returned' = info'
    /\ hist' = hist \cup {"rewrite_raised"}
    /\ pc' = "done"
    /\ UNCHANGED <<result_max_token, raw, inputs, output, res, _any_cut, cut_res, i,
                   res_record, overflow_token, _cut_last, tracked,
                   fallback, passes, words0>>

\* lines 46-51: the corpus returns a list of records
Execute ==
    /\ pc = "execute"
    /\ res' \in ResultSets
    /\ _any_cut' = FALSE
    /\ hist' = hist \cup {"execute"}
    /\ pc' = "sample"
    /\ UNCHANGED <<result_max_token, raw, inputs, info, output, cut_res, i,
                   res_record, overflow_token, _cut_last, returned, tracked,
                   fallback, passes, words0>>

\* line 46: the corpus raises
ExecuteRaise ==
    /\ pc = "execute"
    /\ hist' = hist \cup {"execute"}
    /\ pc' = "except"
    /\ UNCHANGED <<result_max_token, raw, inputs, info, output, res, _any_cut, cut_res,
                   i, res_record, overflow_token, _cut_last, returned, tracked,
                   fallback, passes, words0>>

\* a sampling step that keeps every record
SampleKeepsAll ==
    /\ pc = "sample"
    /\ _any_cut' = (Len(res) > max_record_num(result_max_token))
    /\ hist' = hist \cup {"sample"}
    /\ pc' = "check"
    /\ UNCHANGED <<result_max_token, raw, inputs, info, output, res, cut_res, i,
                   res_record, overflow_token, _cut_last, returned, tracked,
                   fallback, passes, words0>>

\* lines 54-56
Sample ==
    /\ pc = "sample"
    /\ IF Len(res) > max_record_num(result_max_token)
       THEN /\ _any_cut' = TRUE
            /\ res' \in Samples(res, max_record_num(result_max_token))
       ELSE UNCHANGED <<_any_cut, res>>
    /\ hist' = hist \cup {"sample"}
    /\ pc' = "check"
    /\ UNCHANGED <<result_max_token, raw, inputs, info, output, cut_res, i,
                   res_record, overflow_token, _cut_last, returned, tracked,
                   fallback, passes, words0>>

\* lines 59-63 and 107-108
WholeCheck ==
    /\ pc = "check"
    /\ IF ListTokens(res) > result_max_token
       THEN /\ cut_res' = <<>>
            /\ i' = 1
            /\ pc' = "for"
            /\ UNCHANGED output
       ELSE /\ output' = JsonDumps(res)
            /\ pc' = "compose"
            /\ UNCHANGED <<cut_res, i>>
    /\ hist' = hist \cup {"check"}
    /\ UNCHANGED <<result_max_token, raw, inputs, info, res, _any_cut,
                   res_record, overflow_token, _cut_last, returned, tracked,
                   fallback, passes, words0>>

\* lines 64-67: the for loop takes the next record
ForRecord ==
    /\ pc = "for"
    /\ i <= Len(res)
    /\ overflow_token' = RecordTokens(res[i]) - token_limit_per_record
    /\ _cut_last' = TRUE
    /\ res_record' = res[i]
    /\ passes' = 0
    /\ words0' = TotalWords(res[i])
    /\ hist' = hist \cup {"shrink"}
    /\ pc' = "while"
    /\ UNCHANGED <<result_max_token, raw, inputs, info, output, res, _any_cut,
                   cut_res, i, returned, tracked, fallback>>

\* lines 70-94: one pass of the while loop
WhilePass ==
    /\ pc = "while"
    /\ overflow_token > 0 /\ _cut_last
    /\ ~PassRaises(res_record)
    /\ res_record' = ShrinkPass(res_record, overflow_token)
    /\ _cut_last' = CutLastAfter(res_record, overflow_token, _cut_last)
    /\ overflow_token' = RecordTokens(res_record') - token_limit_per_record
    /\ passes' = passes + 1
    /\ UNCHANGED <<pc, result_max_token, raw, inputs, info, output, res, _any_cut,
                   cut_res, i, returned, tracked, hist, fallback, words0>>

\* lines 78, 81: a pass divides by zero
WhilePassRaise ==
    /\ pc = "while"
    /\ overflow_token > 0 /\ _cut_last
    /\ PassRaises(res_record)
    /\ passes' = passes + 1
    /\ pc' = "except"
    /\ UNCHANGED <<result_max_token, raw, inputs, info, output, res, _any_cut,
                   cut_res, i, res_record, overflow_token, _cut_last, returned,
                   tracked, hist, fallback, words0>>

\* lines 70, 95: the while loop ends
WhileExit ==
    /\ pc = "while"
    /\ ~(overflow_token > 0 /\ _cut_last)
    /\ cut_res' = Append(cut_res, res_record)
    /\ i' = i + 1
    /\ pc' = "for"
    /\ UNCHANGED <<result_max_token, raw, inputs, info, output, res, _any_cut,
                   res_record, overflow_token, _cut_last, returned, tracked, hist,
                   fallback, passes, words0>>

\* lines 98-99: the for loop has ended
OmitNotice ==
    /\ pc = "for"
    /\ i > Len(res)
    /\ info' = IF _any_cut THEN info \o OmittedNotice ELSE info
    /\ pc' = "recheck"
    /\ UNCHANGED <<result_max_token, raw, inputs, output, res, _any_cut, cut_res, i,
                   res_record, overflow_token, _cut_last, returned, tracked, hist,
                   fallback, passes, words0>>

\* a re-check that never shortens the list
RecheckNoFallback ==
    /\ pc = "recheck"
    /\ output' = JsonDumps(cut_res)
    /\ pc' = "compose"
    /\ UNCHANGED <<result_max_token, raw, inputs, info, res, _any_cut, cut_res, i,
                   res_record, overflow_token, _cut_last, returned, tracked, hist,
                   fallback, passes, words0>>

\* lines 102-105
Recheck ==
    /\ pc = "recheck"
    /\ IF ListTokens(cut_res) > result_max_token
       THEN /\ cut_res' \in cut_list(cut_res, result_max_token)
            /\ fallback' = TRUE
       ELSE UNCHANGED <<cut_res, fallback>>
    /\ output' = JsonDumps(cut_res')
    /\ pc' = "compose"
    /\ UNCHANGED <<result_max_token, raw, inputs, info, res, _any_cut, i,
                   res_record, overflow_token, _cut_last, returned, tracked, hist,
                   passes, words0>>

\* line 110
Compose ==
    /\ pc = "compose"
    /\ info' = info \o SearchResult(output)
    /\ pc' = "track"
    /\ UNCHANGED <<result_max_token, raw, inputs, output, res, _any_cut, cut_res, i,
                   res_record, overflow_token, _cut_last, returned, tracked, hist,
                   fallback, passes, words0>>

\* lines 112-114
Except ==
    /\ pc = "except"
    /\ info' = info \o BrokenNotice
    /\ hist' = hist \cup {"except"}
    /\ pc' = "track"
    /\ UNCHANGED <<result_max_token, raw, inputs, output, res, _any_cut, cut_res, i,
                   res_record, overflow_token, _cut_last, returned, tracked,
                   fallback, passes, words0>>

\* lines 117-120
TrackAndReturn ==
    /\ pc = "track"
    /\ tracked' = Append(tracked, <<"{name}", inputs, "Some item information.">>)
    /\ returned' = output
    /\ pc' = "done"
    /\ UNCHANGED <<result_max_token, raw, inputs, info, output, res, _any_cut, cut_res,
                   i, res_record, overflow_token, _cut_last, hist, fallback,
                   passes, words0>>

Next ==
    \/ RunRewrite
    \/ RunRewriteRaise
    \/ Execute
    \/ ExecuteRaise
    \/ Sample
    \/ WholeCheck
    \/ ForRecord
    \/ WhilePass
    \/ WhilePassRaise
    \/ WhileExit
    \/ OmitNotice
    \/ Recheck
    \/ Compose
    \/ Except
    \/ TrackAndReturn

Spec == Init /\ [][Next]_vars

\* ------------------------------------------------------------------------
\* Properties
\* ------------------------------------------------------------------------

\* the table name that follows the first FROM keyword of a command
FromTarget(sql) ==
    LET p == CHOOSE j \in 1..Len(sql) :
                 UpperStr(sql[j]) = kwFROM /\ \A n \in 1..(j - 1) : UpperStr(sql[n]) # kwFROM
    IN  sql[p + 1]

IsJson(str) == Len(str) = 1 /\ str[1].text = "json"

Succeeded == pc = "done" /\ "except" \notin hist /\ "rewrite_raised" \notin hist

\* C1: every column identifier referenced in a WHERE predicate of the query
\* that rewrite_sql returns is a member of the corpus's column set, given
\* that fuzzy_match returns known columns only.
C1_ColumnsGrounded ==
    pc = "rewrite_returned" => extract_columns_from_where(inputs) \subseteq existing_cols

\* C2: the query that rewrite_sql returns has the corpus's canonical name as
\* its FROM target, with or without a WHERE predicate.
C2_FromCanonical ==
    pc = "rewrite_returned" => FromTarget(inputs) = CorpusName

\* C3: the record set that run serializes has at most result_max_token // 5
\* records, and the set is already reduced to that many records whenever
\* the per-record shrinking is under way.
C3_RecordCap ==
    /\ pc \in {"check", "for", "while", "recheck"} => Len(res) <= result_max_token \div 5
    /\ "shrink" \in hist => "sample" \in hist /\ Len(res) <= result_max_token \div 5
    /\ IsJson(output) => Len(output[1].recs) <= result_max_token \div 5

\* the records were sampled down and a shrinking pass has been made on one
C3_Witness ==
    /\ pc = "while" /\ passes >= 1 /\ _any_cut
    /\ Len(res) = result_max_token \div 5
    /\ Len(res) >= 1

\* C4: when run returns a serialized payload, its token count is at most
\* result_max_token, or the fallback cut_list was applied in this invocation.
C4_TokenCeiling ==
    pc = "done" /\ IsJson(returned) =>
        ListTokens(returned[1].recs) <= result_max_token \/ fallback

\* the shrunk records were still over budget and cut_list was applied
C4_Witness ==
    pc = "done" /\ IsJson(returned) /\ fallback /\ "shrink" \in hist

C6_SameFailureMessage ==
    pc = "done" /\ "except" \in hist => returned = BrokenNotice

\* C7: on success run returns diagnostic sentences followed by the
\* serialized payload, and the sentences include the sampling notice
\* exactly when the record set was sampled down.
C7_PrefixAndPayload ==
    Succeeded =>
        /\ Len(returned) >= 1
        /\ returned[Len(returned)].text = "json"
        /\ (\E n \in 1..(Len(returned) - 1) : <<returned[n]>> = OmittedNotice) <=> _any_cut

\* C8: when rewrite_sql raises, run returns the fixed diagnostic string at
\* once: the corpus is not executed, no truncation step runs and
\* buffer.track is not called; the corpus is executed only after
\* rewrite_sql returned.
C8_RewriteFailure ==
    /\ "rewrite_raised" \in hist =>
          /\ pc = "done"
          /\ returned = BrokenNotice
          /\ hist = {"rewrite_raised"}
          /\ tracked = <<>>
          /\ res = <<>> /\ output = DefaultOutput
    /\ "execute" \in hist => "rewrite" \in hist

\* run has returned after rewrite_sql raised
C8_Witness ==
    pc = "done" /\ "rewrite_raised" \in hist

\* C9: when a pass of the shrink loop has shortened some field of the
\* record and the overflow is still positive, another pass runs.
C9_LoopContinues ==
    [][(/\ pc = "while" /\ pc' = "while" /\ passes' = passes + 1
        /\ overflow_token' > 0
        /\ \E k \in 1..Len(res_record) : res_record'[k] # res_record[k])
       => _cut_last']_vars

\* C10: a pass changes a field only if the field has more than 5 words; it
\* then drops at least one word from the end, keeps at least 3 words and
\* leaves the field ending with the ellipsis; and a field that has fewer
\* words than it came with ends with the ellipsis.
C10_FieldCut ==
    /\ [][(pc = "while" /\ pc' = "while" /\ passes' = passes + 1) =>
            \A k \in 1..Len(res_record) :
                res_record'[k] # res_record[k] =>
                    /\ Len(res_record[k].words) > 5
                    /\ Len(res_record'[k].words) <= Len(res_record[k].words) - 1
                    /\ Len(res_record'[k].words) >= 3
                    /\ res_record'[k].words =
                           SubSeq(res_record[k].words, 1, Len(res_record'[k].words))
                    /\ res_record'[k].ell]_vars
    /\ [](pc = "while" =>
            \A k \in 1..Len(res_record) :
                /\ Len(res_record[k].words) <= Len(res[i][k].words)
                /\ Len(res_record[k].words) < Len(res[i][k].words) => res_record[k].ell)

\* a field was cut by several words in one pass, then by one word in a
\* later pass, and now has too few words to be cut again
C10_Witness ==
    /\ pc = "while" /\ passes >= 2
    /\ \E k \in 1..Len(res_record) :
          /\ Len(res[i][k].words) > 10
          /\ Len(res_record[k].words) \in 3..5
          /\ res_record[k].ell

====
